---- MODULE Spec2Model ----
(***************************************************************************)
(* Membership lifecycle and payment reconciliation of the gym backend:     *)
(* the PayHere payment controller (initiatePayment, paymentNotify,         *)
(* manualCompletePayment), the Payment / MembershipPackage / User models,  *)
(* the generic user controller and the MembershipService sweeper.          *)
(*                                                                         *)
(* Time is counted in minutes since midnight of day 0.  Money is counted   *)
(* in hundredths of a rupee, so that toFixed(2) is exact.                  *)
(***************************************************************************)
EXTENDS Integers, Sequences, FiniteSets, TLC

\* ------------------------------------------------------------------ bounds
MaxOrders == 2          \* payments that can be initiated in one behaviour
MaxDay == 9            \* the clock stops advancing after this many days
ClockStep == 3          \* days between two moments at which anything happens
MaxHandled == 3         \* webhooks, manual completions and user updates handled in
                        \* one behaviour; a webhook that throws or carries foreign
                        \* custom fields counts twice
MonthDays == 2          \* length of a (model) calendar month in days
MaxFlight == 2          \* initiations that can be between check and create
TickMinutes == 15       \* minutes between two requests of the fine clock
MaxMinutes == 45        \* the fine clock stops advancing after this many minutes

\* ------------------------------------------------------- program constants
DayMinutes == 1440
GraceDays == 5
PendingWindow == 30

\* ------------------------------------------------------------ identities
Users == {"u1", "u2"}
PackageIds == {"p1", "p2"}
NoId == "none"          \* a well-formed id that names no document
Undefined == "undefined" \* an id or string field that is not set
NoNumber == 0 - 1          \* a number field that is not set
NoDate == 0 - 1            \* a date field that was never set
MerchantId == "M1"
MerchantSecret == "secret"
Currency == "LKR"

MembershipStatuses == {"inactive", "active", "grace_period", "expired"}
PaymentStatuses == {"pending", "success", "failed", "cancelled", "refunded"}
TerminalStatuses == PaymentStatuses \ {"pending"}
StatusCodes == {"2", "0", "-1", "-2", "-3", "1"}

LKR(n) == n * 100

\* The package catalogue (static fields of the MembershipPackage documents).
Catalogue(p) ==
    IF p = "p1"
    THEN [isActive |-> TRUE, maxMembers |-> 1, durationMonths |-> 1,
          price |-> LKR(9000), discount |-> 11]
    ELSE [isActive |-> TRUE, maxMembers |-> NoNumber, durationMonths |-> 2,
          price |-> LKR(5000), discount |-> 0]

VARIABLES
    now,            \* the clock, minutes
    users,          \* [Users -> Membership State of the User document]
    packages,       \* [PackageIds -> MembershipPackage document]
    payments,       \* sequence of Payment documents; the index is the order id
    notifications,  \* set of <<user id, type>> of the Notification documents
    last,           \* the last request handled and the HTTP status it got
    handled,        \* webhooks, manual completions and user updates handled so far
    flight          \* handlers between their reads and their writes: the
                    \* initiations that passed their checks and have not yet
                    \* created their Payment, [user, package], and the
                    \* handlers that loaded documents they have not saved yet

vars == <<now, users, packages, payments, notifications, last, handled, flight>>
data == <<users, packages, payments, notifications>>

\* ------------------------------------------------------------------ dates
\* new Date() with setHours(0, 0, 0, 0): midnight of the current day.
StartOfDay(t) == t - (t % DayMinutes)

\* endDate.setMonth(endDate.getMonth() + durationMonths)
AddMonths(t, m) == t + m * MonthDays * DayMinutes

\* gracePeriodEnd.setDate(gracePeriodEnd.getDate() + 5)
AddDays(t, d) == t + d * DayMinutes

\* ------------------------------------------------------- JavaScript values
\* `n && ...` on a number: undefined and 0 are falsy.
Truthy(n) == n # NoNumber /\ n # 0

\* `s || default` on a string: undefined and "" are falsy.
TruthyStr(s) == s # Undefined /\ s # ""

\* ---------------------------------------------------------------- package
\* The discount applied as a whole number of hundreds: price * (discount / 100)
\* with the quotient truncated.
discountedPriceTruncated(p) ==
    IF Truthy(Catalogue(p).discount) /\ Catalogue(p).discount > 0
    THEN Catalogue(p).price - Catalogue(p).price * (Catalogue(p).discount \div 100)
    ELSE Catalogue(p).price

\* membershipPackageSchema.virtual('discountedPrice'); initiatePayment
\* computes its amount with the same expression.
discountedPrice(p) ==
    IF Truthy(Catalogue(p).discount) /\ Catalogue(p).discount > 0
    THEN Catalogue(p).price - (Catalogue(p).price * Catalogue(p).discount) \div 100
    ELSE Catalogue(p).price

\* The capacity test with > for >=: the last slot is sold twice.
AtCapacityOffByOne(p) ==
    /\ Truthy(Catalogue(p).maxMembers)
    /\ packages[p].currentMembers > Catalogue(p).maxMembers

\* The capacity test of initiatePayment and of the virtual isAvailable.
AtCapacity(p) ==
    /\ Truthy(Catalogue(p).maxMembers)
    /\ packages[p].currentMembers >= Catalogue(p).maxMembers

isAvailable(p) ==
    IF ~Catalogue(p).isActive THEN FALSE
    ELSE IF AtCapacity(p) THEN FALSE
    ELSE TRUE

\* ---------------------------------------------------------------- payment
OrderIds == 1..Len(payments)
UnknownOrder == 0

NewPayment(u, p) ==
    [user |-> u, package |-> p, amount |-> discountedPrice(p),
     status |-> "pending", createdAt |-> now,
     payHereStatusCode |-> Undefined, statusMessage |-> Undefined,
     membershipStartDate |-> NoDate, membershipEndDate |-> NoDate,
     refundAmount |-> NoNumber, refundReason |-> Undefined]

markAsSuccess(pay, code, msg) ==
    [pay EXCEPT !.status = "success",
                !.payHereStatusCode = code,
                !.statusMessage = IF TruthyStr(msg) THEN msg ELSE "Payment successful"]

markAsFailed(pay, reason, code) ==
    [pay EXCEPT !.status = "failed",
                !.statusMessage = reason,
                !.payHereStatusCode = code]

markAsCancelled(pay) ==
    [pay EXCEPT !.status = "cancelled",
                !.statusMessage = "Payment cancelled by user"]

processRefund(pay, amount, reason) ==
    [pay EXCEPT !.status = "refunded",
                !.refundAmount = amount,
                !.refundReason = reason]

\* ------------------------------------------------------------------- state
InitUser ==
    [membershipStatus |-> "inactive", membershipPackage |-> Undefined,
     membershipStartDate |-> NoDate, membershipEndDate |-> NoDate,
     gracePeriodEndDate |-> NoDate]

Init ==
    /\ now = 0
    /\ users = [u \in Users |-> InitUser]
    /\ packages = [p \in PackageIds |-> [currentMembers |-> 0]]
    /\ payments = <<>>
    /\ notifications = {}
    /\ last = [op |-> "none", res |-> 0, msg |-> ""]
    /\ handled = 0
    /\ flight = <<>>

Respond(op, res, msg) == last' = [op |-> op, res |-> res, msg |-> msg]

\* ------------------------------------------------------------------- clock
AdvanceDay ==
    /\ now < MaxDay * DayMinutes
    /\ now' = AddDays(now, ClockStep)
    /\ UNCHANGED <<data, last, handled, flight>>

\* The clock of the sweeps: half a step at a time, so that moments in the
\* middle of a day occur as well as midnights.
AdvanceHalfStep ==
    /\ now < MaxDay * DayMinutes
    /\ now' = now + (ClockStep * DayMinutes) \div 2
    /\ UNCHANGED <<data, last, handled, flight>>

\* ---------------------------------------------------------- initiatePayment
\* The pending payment of user u created within the last 30 minutes, if any.
RecentPending(u) ==
    {o \in OrderIds : /\ payments[o].user = u
                      /\ payments[o].status = "pending"
                      /\ payments[o].createdAt >= now - PendingWindow}

\* The active-membership test with its date comparison the wrong way round.
MembershipEndedOnly(u) ==
    /\ users[u].membershipStatus = "active"
    /\ users[u].membershipEndDate # NoDate
    /\ users[u].membershipEndDate < now

MembershipStillActive(u) ==
    /\ users[u].membershipStatus = "active"
    /\ users[u].membershipEndDate # NoDate
    /\ users[u].membershipEndDate > now

\* data.daysRemaining of the rejection: Math.ceil((membershipEnd - today) / day).
daysRemaining(u) ==
    (users[u].membershipEndDate - now + DayMinutes - 1) \div DayMinutes

\* The response of initiatePayment(u, p) in the current state.
InitiateResponse(u, p) ==
    IF p \notin PackageIds THEN <<404, "Package not found">>
    ELSE IF ~Catalogue(p).isActive THEN <<400, "not available">>
    ELSE IF AtCapacity(p) THEN <<400, "maximum capacity">>
    ELSE IF MembershipStillActive(u) THEN <<400, "active membership">>
    ELSE IF RecentPending(u) # {} THEN <<400, "pending payment">>
    ELSE <<200, "Payment initiated">>

initiatePayment(u, p) ==
    /\ Respond("initiatePayment", InitiateResponse(u, p)[1], InitiateResponse(u, p)[2])
    /\ IF InitiateResponse(u, p)[1] = 200
       THEN /\ Len(payments) < MaxOrders
            /\ payments' = Append(payments, NewPayment(u, p))
       ELSE UNCHANGED payments
    /\ UNCHANGED <<now, flight, users, packages, notifications, handled>>

\* ------------------------------------------- initiatePayment, step by step
\* initiatePayment awaits its reads (package, user, pending payment) and only
\* then awaits Payment.create, so another request can run in between.  The
\* checks of a request are taken together; `flight` holds the requests that
\* have passed them and have not created their Payment yet.
initiateCheck(u, p) ==
    /\ Len(flight) < MaxFlight
    /\ IF InitiateResponse(u, p)[1] = 200
       THEN /\ flight' = Append(flight, [user |-> u, package |-> p])
            /\ UNCHANGED last
       ELSE /\ Respond("initiatePayment", InitiateResponse(u, p)[1],
                       InitiateResponse(u, p)[2])
            /\ UNCHANGED flight
    /\ UNCHANGED <<now, data, handled>>

\* The sequence s without its i-th element.
RemoveAt(s, i) == [j \in 1..(Len(s) - 1) |-> IF j < i THEN s[j] ELSE s[j + 1]]

\* Payment.create of the i-th request in flight, answered 200.
initiateCreate(i) ==
    /\ i \in 1..Len(flight)
    /\ Len(payments) < MaxOrders
    /\ payments' = Append(payments, NewPayment(flight[i].user, flight[i].package))
    /\ flight' = RemoveAt(flight, i)
    /\ Respond("initiatePayment", 200, "Payment initiated")
    /\ UNCHANGED <<now, users, packages, notifications, handled>>

\* orderId is ORDER_<Date.now()>_<user id> and unique: a create in the same
\* millisecond as another Payment of the user fails, and the catch answers 500.
initiateCreateDuplicate(i) ==
    /\ i \in 1..Len(flight)
    /\ \E o \in OrderIds : /\ payments[o].user = flight[i].user
                           /\ payments[o].createdAt = now
    /\ flight' = RemoveAt(flight, i)
    /\ Respond("initiatePayment", 500, "Error initiating payment")
    /\ UNCHANGED <<now, data, handled>>

\* The clock between two requests made minutes apart.
Tick ==
    /\ now < MaxMinutes
    /\ now' = now + TickMinutes
    /\ UNCHANGED <<data, last, handled, flight>>

\* -------------------------------------------------------------- signature
\* crypto.createHash('md5').update(x).digest('hex'): the digest is kept
\* symbolic (one digest per input) and carries the case of its hex digits.
MD5(x) == [md5 |-> x, hexcase |-> "lower"]
toUpperCase(d) == [d EXCEPT !.hexcase = "upper"]

\* parseFloat of the amount strings that occur, in hundredths.
parseFloat(s) ==
    CASE s = "8010.00" -> 801000
      [] s = "8010" -> 801000
      [] s = "5000.00" -> 500000
      [] s = "5000" -> 500000
      [] OTHER -> 0

\* Number.prototype.toFixed(2): <<integer part, two decimals>>.
toFixed2(n) == <<n \div 100, n % 100>>

\* Number.prototype.toString() of an amount.
toString(n) ==
    CASE n = 801000 -> "8010"
      [] n = 500000 -> "5000"
      [] OTHER -> "0"

generatePayHereHash(merchantId, orderId, amount, currency, merchantSecret) ==
    toUpperCase(MD5(<<merchantId, orderId, toFixed2(parseFloat(amount)), currency,
                      toUpperCase(MD5(merchantSecret))>>))

\* The recomputation with the digest of the secret left in lowercase.
localHashLowerSecret(req, merchantSecret) ==
    toUpperCase(MD5(<<req.merchant_id, req.order_id,
                      toFixed2(parseFloat(req.payhere_amount)),
                      req.payhere_currency, req.status_code,
                      MD5(merchantSecret)>>))

\* The digest paymentNotify recomputes from the fields of the request.
localHash(req, merchantSecret) ==
    toUpperCase(MD5(<<req.merchant_id, req.order_id,
                      toFixed2(parseFloat(req.payhere_amount)),
                      req.payhere_currency, req.status_code,
                      toUpperCase(MD5(merchantSecret))>>))

\* The gate with its `return` forgotten: a mismatch is logged, not rejected.
HashVerifiedLogOnly(req) == req.md5sig.hexcase \in {"upper", "lower"}

\* The gate of paymentNotify: localHash !== md5sig rejects.
HashVerified(req) == ~(localHash(req, MerchantSecret) # req.md5sig)

\* ------------------------------------------------------- webhook requests
SigKinds == {"gateway", "lowercase", "forged", "tampered"}

AmountString(o) ==
    IF o \in OrderIds /\ payments[o].amount = 500000 THEN "5000.00" ELSE "8010.00"

Fields(o, c, cu, cp) ==
    [merchant_id |-> MerchantId, order_id |-> o,
     payhere_amount |-> AmountString(o), payhere_currency |-> Currency,
     status_code |-> c, status_message |-> Undefined,
     custom_1 |-> cu, custom_2 |-> cp]

\* What the sender puts in md5sig: the gateway signs the fields it sends;
\* "lowercase" is the same digest in lowercase hex; "forged" is made without
\* the merchant secret; "tampered" was made for another status code.
Signature(f, kind) ==
    CASE kind = "gateway" -> localHash(f, MerchantSecret)
      [] kind = "lowercase" ->
            [localHash(f, MerchantSecret) EXCEPT !.hexcase = "lower"]
      [] kind = "forged" -> localHash(f, "guess")
      [] OTHER ->
            localHash([f EXCEPT !.status_code = IF @ = "0" THEN "2" ELSE "0"],
                      MerchantSecret)

Request(o, c, cu, cp, kind) ==
    [merchant_id |-> MerchantId, order_id |-> o,
     payhere_amount |-> AmountString(o), payhere_currency |-> Currency,
     status_code |-> c, status_message |-> Undefined,
     custom_1 |-> cu, custom_2 |-> cp,
     md5sig |-> Signature(Fields(o, c, cu, cp), kind)]

\* The form initiatePayment returns for the order: the amount to two
\* decimals, and the hash made from amount.toString().
paymentData(o) ==
    [merchant_id |-> MerchantId, order_id |-> o, currency |-> Currency,
     amount |-> AmountString(o),
     hash |-> generatePayHereHash(MerchantId, o, toString(payments[o].amount),
                                  Currency, MerchantSecret),
     custom_1 |-> payments[o].user, custom_2 |-> payments[o].package]

OwnUser(o) == IF o \in OrderIds THEN payments[o].user ELSE NoId
OwnPackage(o) == IF o \in OrderIds THEN payments[o].package ELSE NoId

\* What the gateway sends for an order whose form was posted unchanged:
\* custom_1 and custom_2 are the ids initiatePayment put in the form.
GatewayRequests ==
    {Request(o, c, OwnUser(o), OwnPackage(o), "gateway") :
        o \in OrderIds \cup {UnknownOrder}, c \in StatusCodes}

\* Requests whose md5sig is not the gateway's digest of their fields.
UnverifiedRequests ==
    {Request(o, c, OwnUser(o), OwnPackage(o), kind) :
        o \in OrderIds \cup {UnknownOrder}, c \in StatusCodes,
        kind \in SigKinds \ {"gateway"}}

\* custom_1 and custom_2 are not part of the digest: the gateway signs
\* whatever the posted form carried.  Only the branches that read them.
CustomRequests ==
    {Request(o, c, cu, cp, "gateway") :
        o \in OrderIds, c \in {"2", "-2", "-3"},
        cu \in Users \cup {NoId}, cp \in PackageIds \cup {NoId}}
    \ GatewayRequests

\* ------------------------------------------------------------ paymentNotify
\* The assignment with the grace period counted from the start date.
ActivatedUserGraceFromStart(usr, p, t) ==
    [usr EXCEPT !.membershipPackage = p,
                !.membershipStatus = "active",
                !.membershipStartDate = t,
                !.membershipEndDate = AddMonths(t, Catalogue(p).durationMonths),
                !.gracePeriodEndDate = AddDays(t, GraceDays)]

\* The membership fields the success branch assigns to the user document.
ActivatedUser(usr, p, t) ==
    [usr EXCEPT !.membershipPackage = p,
                !.membershipStatus = "active",
                !.membershipStartDate = t,
                !.membershipEndDate = AddMonths(t, Catalogue(p).durationMonths),
                !.gracePeriodEndDate =
                    AddDays(AddMonths(t, Catalogue(p).durationMonths), GraceDays)]

\* payment.membershipStartDate / membershipEndDate of the success branch.
WithWindow(pay, p, t) ==
    [pay EXCEPT !.membershipStartDate = t,
                !.membershipEndDate = AddMonths(t, Catalogue(p).durationMonths)]

\* The chargeback's decrement without its guard.
ChargebackCountUnguarded(n) == n - 1

\* The chargeback's decrement: only when the counter is above 0.
ChargebackCount(n) == IF n > 0 THEN n - 1 ELSE n

\* Every branch is a sequence of awaited steps; `done` is the number of steps
\* that complete before one throws (the catch answers 500 and nothing is
\* rolled back).  done = the number of steps of the branch: nothing throws.
\*   success:    1 markAsSuccess  2 findById user, package  3 user.save
\*               4 payment.save   5 package.save  6 activation email
\*               7 Notification.create (the receipt in between is caught)
NotifySuccess(req, done) ==
    LET o == req.order_id
        u == req.custom_1
        p == req.custom_2
        found == u \in Users /\ p \in PackageIds
        steps == IF found THEN 7 ELSE 2
        paid == markAsSuccess(payments[o], req.status_code, req.status_message)
    IN  /\ done <= steps
        /\ payments' = [payments EXCEPT ![o] =
                            IF found /\ done >= 4 THEN WithWindow(paid, p, now)
                            ELSE IF done >= 1 THEN paid ELSE @]
        /\ users' = IF found /\ done >= 3
                    THEN [users EXCEPT ![u] = ActivatedUser(@, p, now)]
                    ELSE users
        /\ packages' = IF found /\ done >= 5
                       THEN [packages EXCEPT ![p].currentMembers = @ + 1]
                       ELSE packages
        /\ notifications' = IF found /\ done >= 7
                            THEN notifications \cup {<<u, "payment_success">>}
                            ELSE notifications
        /\ IF done = steps
           THEN Respond("paymentNotify", 200, "OK")
           ELSE Respond("paymentNotify", 500, "Error")

\* The pending branch putting the Payment back to pending as well.
NotifyPendingResets(req, done) ==
    LET o == req.order_id
    IN  /\ done <= 1
        /\ payments' = IF done >= 1
                       THEN [payments EXCEPT ![o].statusMessage = "Payment pending",
                                             ![o].status = "pending"]
                       ELSE payments
        /\ UNCHANGED <<users, packages, notifications>>
        /\ IF done = 1
           THEN Respond("paymentNotify", 200, "OK")
           ELSE Respond("paymentNotify", 500, "Error")

\*   pending:    1 payment.save
NotifyPending(req, done) ==
    LET o == req.order_id
    IN  /\ done <= 1
        /\ payments' = IF done >= 1
                       THEN [payments EXCEPT ![o].statusMessage =
                                IF TruthyStr(req.status_message)
                                THEN req.status_message ELSE "Payment pending"]
                       ELSE payments
        /\ UNCHANGED <<users, packages, notifications>>
        /\ IF done = 1
           THEN Respond("paymentNotify", 200, "OK")
           ELSE Respond("paymentNotify", 500, "Error")

\*   cancelled:  1 markAsCancelled
NotifyCancelled(req, done) ==
    LET o == req.order_id
    IN  /\ done <= 1
        /\ payments' = IF done >= 1
                       THEN [payments EXCEPT ![o] = markAsCancelled(@)]
                       ELSE payments
        /\ UNCHANGED <<users, packages, notifications>>
        /\ IF done = 1
           THEN Respond("paymentNotify", 200, "OK")
           ELSE Respond("paymentNotify", 500, "Error")

\*   failed:     1 markAsFailed  2 Notification.create
NotifyFailed(req, done) ==
    LET o == req.order_id
    IN  /\ done <= 2
        /\ payments' = IF done >= 1
                       THEN [payments EXCEPT ![o] =
                                markAsFailed(@, IF TruthyStr(req.status_message)
                                                THEN req.status_message
                                                ELSE "Payment failed",
                                             req.status_code)]
                       ELSE payments
        /\ notifications' = IF done >= 2
                            THEN notifications \cup {<<req.custom_1, "payment_failed">>}
                            ELSE notifications
        /\ UNCHANGED <<users, packages>>
        /\ IF done = 2
           THEN Respond("paymentNotify", 200, "OK")
           ELSE Respond("paymentNotify", 500, "Error")

\* The chargeback's test of the user without the test of the status.
ChargebackAppliesAlways(u) == u \in Users

\* The chargeback deactivates only a user who is found and active.
ChargebackApplies(u) == u \in Users /\ users[u].membershipStatus = "active"

\*   chargeback: 1 processRefund  2 findById user, package  3 user.save
\*               4 package.save   5 Notification.create
NotifyChargeback(req, done) ==
    LET o == req.order_id
        u == req.custom_1
        p == req.custom_2
        active == ChargebackApplies(u)
    IN  /\ done <= 5
        /\ payments' = IF done >= 1
                       THEN [payments EXCEPT ![o] =
                                processRefund(@, parseFloat(req.payhere_amount),
                                              "Chargeback")]
                       ELSE payments
        /\ users' = IF active /\ done >= 3
                    THEN [users EXCEPT ![u].membershipStatus = "expired"]
                    ELSE users
        /\ packages' = IF active /\ p \in PackageIds /\ done >= 4
                       THEN [packages EXCEPT ![p].currentMembers = ChargebackCount(@)]
                       ELSE packages
        /\ notifications' = IF done >= 5
                            THEN notifications \cup {<<u, "payment_failed">>}
                            ELSE notifications
        /\ IF done = 5
           THEN Respond("paymentNotify", 200, "OK")
           ELSE Respond("paymentNotify", 500, "Error")

\* The answer to a verified request with the unknown order acknowledged.
NotifyNotFoundAcknowledged(req, done) ==
    /\ done = 0
    /\ Respond("paymentNotify", 200, "OK")
    /\ UNCHANGED data

\* Payment.findOne({ orderId }) found nothing: 404 before any write.
NotifyNotFound(req, done) ==
    /\ done = 0
    /\ Respond("paymentNotify", 404, "Payment not found")
    /\ UNCHANGED data

Notify(req, done, cost) ==
    /\ handled + cost <= MaxHandled
    /\ handled' = handled + cost
    /\ UNCHANGED <<now, flight>>
    /\ IF ~HashVerified(req)
       THEN /\ done = 0
            /\ Respond("paymentNotify", 400, "Invalid hash")
            /\ UNCHANGED data
       ELSE IF req.order_id \notin OrderIds
       THEN NotifyNotFound(req, done)
       ELSE IF req.status_code = "2" THEN NotifySuccess(req, done)
       ELSE IF req.status_code = "0" THEN NotifyPending(req, done)
       ELSE IF req.status_code = "-1" THEN NotifyCancelled(req, done)
       ELSE IF req.status_code = "-2" THEN NotifyFailed(req, done)
       ELSE IF req.status_code = "-3" THEN NotifyChargeback(req, done)
       ELSE /\ done = 0
            /\ Respond("paymentNotify", 200, "OK")
            /\ UNCHANGED data

\* The number of awaited steps of the branch a request takes.
Steps(req) ==
    IF ~HashVerified(req) \/ req.order_id \notin OrderIds THEN 0
    ELSE IF req.status_code = "2"
    THEN IF req.custom_1 \in Users /\ req.custom_2 \in PackageIds THEN 7 ELSE 2
    ELSE IF req.status_code = "0" THEN 1
    ELSE IF req.status_code = "-1" THEN 1
    ELSE IF req.status_code = "-2" THEN 2
    ELSE IF req.status_code = "-3" THEN 5
    ELSE 0

\* A delivery by the gateway in which no step throws.
paymentNotify ==
    \E req \in GatewayRequests : Notify(req, Steps(req), 1)

\* A delivery whose md5sig is not the gateway's.
paymentNotifyUnverified ==
    \E req \in UnverifiedRequests : Notify(req, Steps(req), 1)

\* A delivery for a form that was posted with other custom fields.
paymentNotifyCustom ==
    \E req \in CustomRequests : Notify(req, Steps(req), 2)

\* A delivery in which a step throws (database or mail error).
paymentNotifyThrows ==
    \E req \in GatewayRequests \cup CustomRequests :
        \E done \in 0..6 : done < Steps(req) /\ Notify(req, done, 2)

\* The deliveries that touch a membership: success and chargeback.
MembershipCodes == {"2", "-3"}

paymentNotifyMembership ==
    \E req \in GatewayRequests :
        /\ req.order_id \in OrderIds
        /\ req.status_code \in MembershipCodes
        /\ Notify(req, Steps(req), 1)

paymentNotifyMembershipCustom ==
    \E req \in CustomRequests :
        /\ req.status_code \in MembershipCodes
        /\ Notify(req, Steps(req), 2)

\* The deliveries that activate a membership: success for a known order.
paymentNotifyActivation ==
    \E req \in GatewayRequests :
        /\ req.order_id \in OrderIds
        /\ req.status_code = "2"
        /\ Notify(req, Steps(req), 1)

\* The deliveries that take a pending Payment out of the way of a new
\* initiation without touching the membership: cancellation.
paymentNotifyCancelled ==
    \E req \in GatewayRequests :
        /\ req.order_id \in OrderIds
        /\ req.status_code = "-1"
        /\ Notify(req, Steps(req), 1)

\* ---------------------------------------------------- manualCompletePayment
\*   1 markAsSuccess  2 findById user, package  3 user.save  4 payment.save
\*   5 package.save   6 Notification.create (the email in between is caught)
manualCompletePayment(actor, o, done) ==
    /\ handled + 1 <= MaxHandled
    /\ handled' = handled + 1
    /\ UNCHANGED <<now, flight>>
    /\ IF o \notin OrderIds
       THEN /\ done = 0
            /\ Respond("manualCompletePayment", 404, "Payment not found")
            /\ UNCHANGED data
       ELSE IF payments[o].user # actor
       THEN /\ done = 0
            /\ Respond("manualCompletePayment", 403, "Not authorized")
            /\ UNCHANGED data
       ELSE IF payments[o].status = "success"
       THEN /\ done = 0
            /\ Respond("manualCompletePayment", 400, "already completed")
            /\ UNCHANGED data
       ELSE LET u == payments[o].user
                p == payments[o].package
                paid == markAsSuccess(payments[o], "2", "Manual completion for testing")
            IN  /\ done <= 6
                /\ payments' = [payments EXCEPT ![o] =
                                    IF done >= 4 THEN WithWindow(paid, p, now)
                                    ELSE IF done >= 1 THEN paid ELSE @]
                /\ users' = IF done >= 3
                            THEN [users EXCEPT ![u] = ActivatedUser(@, p, now)]
                            ELSE users
                /\ packages' = IF done >= 5
                               THEN [packages EXCEPT ![p].currentMembers = @ + 1]
                               ELSE packages
                /\ notifications' = IF done >= 6
                                    THEN notifications \cup {<<u, "payment_success">>}
                                    ELSE notifications
                /\ IF done = 6
                   THEN Respond("manualCompletePayment", 200, "OK")
                   ELSE Respond("manualCompletePayment", 500, "Error")

\* ------------------------------------------------------------------ sweeper
\* Math.max(0, currentMembers - 1)
SweepCount(n) == IF n - 1 > 0 THEN n - 1 ELSE 0

\* The pass with one copy of the package per user: every save writes the
\* count read by the query, less one.
SweepCountOnce(n, k) == IF k = 0 THEN n ELSE SweepCount(n)

RECURSIVE SweepCountTimes(_, _)
SweepCountTimes(n, k) == IF k = 0 THEN n ELSE SweepCountTimes(SweepCount(n), k - 1)

\* The users the two queries of handleGracePeriodExpiry select.
usersExpiringSoon ==
    {u \in Users : /\ users[u].membershipStatus = "grace_period"
                   /\ users[u].gracePeriodEndDate # NoDate
                   /\ users[u].gracePeriodEndDate >= StartOfDay(now)
                   /\ users[u].gracePeriodEndDate < StartOfDay(now) + DayMinutes}

\* The query with the comparison of the date the other way round.
usersToSuspendNotYetDue ==
    {u \in Users : /\ users[u].membershipStatus = "grace_period"
                   /\ users[u].gracePeriodEndDate # NoDate
                   /\ users[u].gracePeriodEndDate > StartOfDay(now)}

usersToSuspend ==
    {u \in Users : /\ users[u].membershipStatus = "grace_period"
                   /\ users[u].gracePeriodEndDate # NoDate
                   /\ users[u].gracePeriodEndDate < StartOfDay(now)}

\* populate('membershipPackage'): users of one package share one document,
\* so every suspension of the pass decrements the same in-memory counter.
handleGracePeriodExpiry ==
    /\ users' = [u \in Users |->
                    IF u \in usersToSuspend
                    THEN [users[u] EXCEPT !.membershipStatus = "expired"]
                    ELSE users[u]]
    /\ packages' = [p \in PackageIds |->
                    [packages[p] EXCEPT !.currentMembers =
                        SweepCountTimes(@, Cardinality(
                            {u \in usersToSuspend : users[u].membershipPackage = p}))]]
    /\ notifications' = notifications \cup
            {<<u, "membership_expiry">> : u \in usersExpiringSoon \cup usersToSuspend}
    /\ UNCHANGED <<now, flight, payments, last, handled>>

\* The query with the current moment in place of today's midnight.
usersToExpireByNow ==
    {u \in Users : /\ users[u].membershipStatus = "active"
                   /\ users[u].membershipEndDate # NoDate
                   /\ users[u].membershipEndDate < now}

\* The users the query of expireMemberships selects.
usersToExpire ==
    {u \in Users : /\ users[u].membershipStatus = "active"
                   /\ users[u].membershipEndDate # NoDate
                   /\ users[u].membershipEndDate < StartOfDay(now)}

expireMemberships ==
    /\ users' = [u \in Users |->
                    IF u \in usersToExpire
                    THEN [users[u] EXCEPT !.membershipStatus = "grace_period"]
                    ELSE users[u]]
    /\ notifications' = notifications \cup
            {<<u, "membership_expiry">> : u \in usersToExpire}
    /\ UNCHANGED <<now, flight, packages, payments, last, handled>>

\* The lead times of the three reminder jobs.
ReminderDays == {7, 3, 1}

usersToRemind(daysUntilExpiry) ==
    {u \in Users : /\ users[u].membershipStatus = "active"
                   /\ users[u].membershipEndDate # NoDate
                   /\ users[u].membershipEndDate >=
                        StartOfDay(AddDays(now, daysUntilExpiry))
                   /\ users[u].membershipEndDate <
                        StartOfDay(AddDays(now, daysUntilExpiry)) + DayMinutes}

sendExpiryReminders(daysUntilExpiry) ==
    /\ notifications' = notifications \cup
            {<<u, "membership_expiry">> : u \in usersToRemind(daysUntilExpiry)}
    /\ UNCHANGED <<now, flight, users, packages, payments, last, handled>>

\* ------------------------------------------- sweeper passes with failures
\* Every pass loops over the users its query selected, in the order of the
\* query, with the body of the loop in a try/catch of its own.  `fail` gives,
\* for every user, the number of awaited steps of the iteration that complete
\* before one throws; AllSteps stands for an iteration in which none throws.
\* A pass whose query selects nobody has no iteration to fail.
AllSteps == 3

\* The order in which a query returns the users.
Rank(u) == IF u = "u1" THEN 1 ELSE 2

\* The loop with the catch around it instead of inside it: the first failure
\* ends the pass.
completedStepsLoopAborts(selected, fail, u) ==
    IF \E v \in selected : Rank(v) < Rank(u) /\ fail[v] < AllSteps
    THEN 0
    ELSE fail[u]

\* The steps of u's iteration that complete: the catch inside the loop keeps
\* the failure of another iteration away from it.
completedSteps(selected, fail, u) == fail[u]

\* What a pass returns ({ success: true, count }) is recorded in `last`: res
\* is the count, msg tells a return from a throw.
Return(op, count) == Respond(op, count, "success")

\*   reminder:   1 email  2 createMembershipExpiryNotification
sendExpiryRemindersFailing(daysUntilExpiry, fail) ==
    LET selected == usersToRemind(daysUntilExpiry)
    IN  /\ selected # {}
        /\ notifications' = notifications \cup
                {<<u, "membership_expiry">> :
                    u \in {v \in selected : completedSteps(selected, fail, v) >= 2}}
        /\ Return("sendExpiryReminders", Cardinality(selected))
        /\ UNCHANGED <<now, flight, users, packages, payments, handled>>

\*   expiry:     1 user.save  2 email  3 Notification.create
expireMembershipsFailing(fail) ==
    LET selected == usersToExpire
    IN  /\ selected # {}
        /\ users' = [u \in Users |->
                        IF u \in selected /\ completedSteps(selected, fail, u) >= 1
                        THEN [users[u] EXCEPT !.membershipStatus = "grace_period"]
                        ELSE users[u]]
        /\ notifications' = notifications \cup
                {<<u, "membership_expiry">> :
                    u \in {v \in selected : completedSteps(selected, fail, v) >= 3}}
        /\ Return("expireMemberships", Cardinality(selected))
        /\ UNCHANGED <<now, flight, packages, payments, handled>>

\*   warning:    1 email  2 Notification.create
\*   suspension: 1 user.save  2 packageInfo.save  3 Notification.create
\* The package document is shared by the users of the package: a save writes
\* the count less every decrement made in memory so far, and the decrement
\* of an iteration is made once its user.save has completed.
handleGracePeriodExpiryFailing(fail) ==
    LET warned == usersExpiringSoon
        selected == usersToSuspend
        done(u) == completedSteps(selected, fail, u)
        of(p) == {u \in selected : users[u].membershipPackage = p}
        saved(p) == {u \in of(p) : done(u) >= 2}
        \* the decrements in memory at the last save of the package
        decrements(p) ==
            Cardinality({u \in of(p) : /\ done(u) >= 1
                                       /\ \E v \in saved(p) : Rank(u) <= Rank(v)})
    IN  /\ warned \cup selected # {}
        /\ users' = [u \in Users |->
                        IF u \in selected /\ done(u) >= 1
                        THEN [users[u] EXCEPT !.membershipStatus = "expired"]
                        ELSE users[u]]
        /\ packages' = [p \in PackageIds |->
                        [packages[p] EXCEPT !.currentMembers =
                            SweepCountTimes(@, decrements(p))]]
        /\ notifications' = notifications \cup
                {<<u, "membership_expiry">> :
                    u \in {v \in warned : completedSteps(warned, fail, v) >= 2}
                          \cup {v \in selected : done(v) >= 3}}
        /\ Return("handleGracePeriodExpiry", Cardinality(selected))
        /\ UNCHANGED <<now, flight, payments, handled>>

\* ------------------------------------- counter updates, load and save apart
\* The success branch and the suspension pass load a package document, change
\* currentMembers in memory and save the document: the save writes the
\* number computed from the loaded one.  Other handlers run between the load
\* and the save.  `flight` holds what the handlers in between have loaded.

\* The success branch up to its loads: markAsSuccess, findById of the user
\* and of the package (steps 1 and 2), for the gateway's webhook of order o.
paymentNotifyLoad(o) ==
    LET req == Request(o, "2", OwnUser(o), OwnPackage(o), "gateway")
    IN  /\ o \in OrderIds
        /\ HashVerified(req)
        /\ handled + 1 <= MaxHandled
        /\ Len(flight) < MaxFlight
        /\ handled' = handled + 1
        /\ payments' = [payments EXCEPT ![o] =
                            markAsSuccess(@, req.status_code, req.status_message)]
        /\ flight' = Append(flight,
                        [op |-> "paymentNotify", order |-> o,
                         user |-> req.custom_1, package |-> req.custom_2,
                         currentMembers |-> packages[req.custom_2].currentMembers])
        /\ UNCHANGED <<now, users, packages, notifications, last>>

\* The rest of the success branch (steps 3 to 7): package_.save() writes the
\* loaded currentMembers plus one.
paymentNotifySave(i) ==
    /\ i \in 1..Len(flight)
    /\ flight[i].op = "paymentNotify"
    /\ users' = [users EXCEPT ![flight[i].user] =
                    ActivatedUser(@, flight[i].package, now)]
    /\ payments' = [payments EXCEPT ![flight[i].order] =
                        WithWindow(@, flight[i].package, now)]
    /\ packages' = [packages EXCEPT ![flight[i].package].currentMembers =
                        flight[i].currentMembers + 1]
    /\ notifications' = notifications \cup {<<flight[i].user, "payment_success">>}
    /\ flight' = RemoveAt(flight, i)
    /\ Respond("paymentNotify", 200, "OK")
    /\ UNCHANGED <<now, handled>>

\* handleGracePeriodExpiry up to its second query: the reminders are sent and
\* the users to suspend are loaded with their packages populated.
handleGracePeriodExpiryFind ==
    /\ usersToSuspend # {}
    /\ Len(flight) < MaxFlight
    /\ \A i \in 1..Len(flight) : flight[i].op # "handleGracePeriodExpiry"
    /\ notifications' = notifications \cup
            {<<u, "membership_expiry">> : u \in usersExpiringSoon}
    /\ flight' = Append(flight,
                    [op |-> "handleGracePeriodExpiry",
                     usersToSuspend |-> [u \in usersToSuspend |-> users[u].membershipPackage],
                     currentMembers |-> [p \in PackageIds |-> packages[p].currentMembers]])
    /\ UNCHANGED <<now, users, packages, payments, last, handled>>

\* The loop of handleGracePeriodExpiry over the loaded users: user.save()
\* writes the status, packageInfo.save() the loaded count less the users
\* suspended so far.
handleGracePeriodExpirySave(i) ==
    /\ i \in 1..Len(flight)
    /\ flight[i].op = "handleGracePeriodExpiry"
    /\ LET loaded == flight[i].usersToSuspend
           of(p) == {u \in DOMAIN loaded : loaded[u] = p}
       IN  /\ users' = [u \in Users |->
                           IF u \in DOMAIN loaded
                           THEN [users[u] EXCEPT !.membershipStatus = "expired"]
                           ELSE users[u]]
           /\ packages' = [p \in PackageIds |->
                           IF of(p) # {}
                           THEN [packages[p] EXCEPT !.currentMembers =
                                    SweepCountTimes(flight[i].currentMembers[p],
                                                    Cardinality(of(p)))]
                           ELSE packages[p]]
           /\ notifications' = notifications \cup
                   {<<u, "membership_expiry">> : u \in DOMAIN loaded}
    /\ flight' = RemoveAt(flight, i)
    /\ UNCHANGED <<now, payments, last, handled>>

\* --------------------------------------------------------------- scheduler
\* The passes of a sweep, in the order of runAllChecksNow:
\*   1 handleGracePeriodExpiry  2 expireMemberships
\*   3, 4, 5 sendExpiryReminders(7), (3), (1)
Passes == 1..5

\* initializeJobs: the hour of the day at which cron starts each pass.
CronHour(pass) == IF pass = 1 THEN 8
                  ELSE IF pass = 2 THEN 9
                  ELSE IF pass = 3 THEN 10
                  ELSE IF pass = 4 THEN 11
                  ELSE 12

ReminderDaysOf(pass) == IF pass = 3 THEN 7 ELSE IF pass = 4 THEN 3 ELSE 1

\* The next moment at which a cron expression matches.
NextCron(t) ==
    LET h == (t % DayMinutes) \div 60
    IN  IF h < 8 THEN StartOfDay(t) + 8 * 60
        ELSE IF h < 12 THEN StartOfDay(t) + (h + 1) * 60
        ELSE StartOfDay(t) + DayMinutes + 8 * 60

PassAt(t) == CHOOSE pass \in Passes : CronHour(pass) = (t % DayMinutes) \div 60

\* The users whose membership is active (kept with a pass under way, for
\* the properties only: the code takes no such note).
ActiveUsers == {u \in Users : users[u].membershipStatus = "active"}

\* The clock reaches the next scheduled moment and cron calls the job of that
\* moment; the callback is asynchronous and cron waits for no earlier one.
\* `flight` holds the passes that have started and have not returned.
cronSchedule ==
    /\ now < MaxDay * DayMinutes + 12 * 60
    /\ Len(flight) < MaxFlight
    /\ now' = NextCron(now)
    /\ flight' = Append(flight, [op |-> "cron", pass |-> PassAt(NextCron(now)),
                                 activeAtStart |-> ActiveUsers])
    /\ UNCHANGED <<data, last, handled>>

\* What a pass writes (the documents it selects, it selects at this moment).
PassUsers(pass) ==
    [u \in Users |->
        IF pass = 1 /\ u \in usersToSuspend
        THEN [users[u] EXCEPT !.membershipStatus = "expired"]
        ELSE IF pass = 2 /\ u \in usersToExpire
        THEN [users[u] EXCEPT !.membershipStatus = "grace_period"]
        ELSE users[u]]

PassPackages(pass) ==
    [p \in PackageIds |->
        IF pass = 1
        THEN [packages[p] EXCEPT !.currentMembers =
                 SweepCountTimes(@, Cardinality(
                     {u \in usersToSuspend : users[u].membershipPackage = p}))]
        ELSE packages[p]]

PassNotifications(pass) ==
    notifications \cup
        {<<u, "membership_expiry">> :
            u \in IF pass = 1 THEN usersExpiringSoon \cup usersToSuspend
                  ELSE IF pass = 2 THEN usersToExpire
                  ELSE usersToRemind(ReminderDaysOf(pass))}

\* A pass started by cron runs to its end and its callback returns.
cronJob(i) ==
    /\ i \in 1..Len(flight)
    /\ flight[i].op = "cron"
    /\ users' = PassUsers(flight[i].pass)
    /\ packages' = PassPackages(flight[i].pass)
    /\ notifications' = PassNotifications(flight[i].pass)
    /\ flight' = RemoveAt(flight, i)
    /\ UNCHANGED <<now, payments, last, handled>>

\* runAllChecksNow is called: its first pass starts.
runAllChecksNow ==
    /\ handled + 1 <= MaxHandled
    /\ Len(flight) < MaxFlight
    /\ handled' = handled + 1
    /\ flight' = Append(flight, [op |-> "runAllChecksNow", pass |-> 1,
                                 activeAtStart |-> ActiveUsers])
    /\ UNCHANGED <<now, data, last>>

\* The pass a call of runAllChecksNow is awaiting returns; the next starts,
\* or the call returns { success: true }.
runAllChecksNowPass(i) ==
    /\ i \in 1..Len(flight)
    /\ flight[i].op = "runAllChecksNow"
    /\ users' = PassUsers(flight[i].pass)
    /\ packages' = PassPackages(flight[i].pass)
    /\ notifications' = PassNotifications(flight[i].pass)
    /\ IF flight[i].pass < 5
       THEN /\ flight' = [flight EXCEPT ![i].pass = @ + 1]
            /\ UNCHANGED last
       ELSE /\ flight' = RemoveAt(flight, i)
            /\ Respond("runAllChecksNow", 200, "success")
    /\ UNCHANGED <<now, payments, handled>>

\* ---------------------------------------------------------- user controller
Admin == "admin"

\* The membership fields a request body can carry (Undefined / NoDate: the
\* field is absent from the body).
BodyStatuses == {"active", "expired", Undefined}
BodyDates == {NoDate, AddDays(StartOfDay(now), 1)}

\* updateUser: `field || user.field` for each field of the body, for one's
\* own record or, as admin, any record.
updateUser(actor, id, membershipStatus, membershipStartDate, membershipEndDate) ==
    /\ handled + 1 <= MaxHandled
    /\ handled' = handled + 1
    /\ IF actor # Admin /\ id # actor
       THEN /\ Respond("updateUser", 403, "Not authorized")
            /\ UNCHANGED users
       ELSE /\ users' = [users EXCEPT ![id] =
                [@ EXCEPT !.membershipStatus =
                              IF membershipStatus # Undefined
                              THEN membershipStatus ELSE @,
                          !.membershipStartDate =
                              IF membershipStartDate # NoDate
                              THEN membershipStartDate ELSE @,
                          !.membershipEndDate =
                              IF membershipEndDate # NoDate
                              THEN membershipEndDate ELSE @]]
            /\ Respond("updateUser", 200, "OK")
    /\ UNCHANGED <<now, flight, packages, payments, notifications>>

\* bulkUpdateUsers: User.updateMany({_id: {$in: userIds}}, {$set: updates}).
bulkUpdateUsers(userIds, membershipStatus, gracePeriodEndDate) ==
    /\ userIds # {}
    /\ handled + 1 <= MaxHandled
    /\ handled' = handled + 1
    /\ users' = [u \in Users |->
                    IF u \in userIds
                    THEN [users[u] EXCEPT
                            !.membershipStatus =
                                IF membershipStatus # Undefined
                                THEN membershipStatus ELSE @,
                            !.gracePeriodEndDate =
                                IF gracePeriodEndDate # NoDate
                                THEN gracePeriodEndDate ELSE @]
                    ELSE users[u]]
    /\ Respond("bulkUpdateUsers", 200, "OK")
    /\ UNCHANGED <<now, flight, packages, payments, notifications>>

\* ------------------------------------------------------------ specifications
Initiate == \E u \in Users : \E p \in PackageIds \cup {NoId} : initiatePayment(u, p)

InitiateKnown == \E u \in Users : \E p \in PackageIds : initiatePayment(u, p)

ManualComplete ==
    \E actor \in Users : \E o \in OrderIds \cup {UnknownOrder} :
        manualCompletePayment(actor, o, IF o \in OrderIds THEN 6 ELSE 0)

Reminders == \E d \in ReminderDays : sendExpiryReminders(d)

UpdateUser ==
    \E actor \in Users \cup {Admin} : \E id \in Users :
        \E st \in BodyStatuses : \E sd \in BodyDates : \E ed \in BodyDates :
            updateUser(actor, id, st, sd, ed)

BulkUpdateUsers ==
    \E ids \in SUBSET Users : \E st \in BodyStatuses : \E gd \in BodyDates :
        bulkUpdateUsers(ids, st, gd)

\* The payment controller.
Next ==
    \/ Initiate
    \/ paymentNotify
    \/ paymentNotifyUnverified
    \/ paymentNotifyCustom
    \/ paymentNotifyThrows
    \/ ManualComplete

Spec == Init /\ [][Next]_vars

\* The payment controller and the sweeper, with the clock.
NextLife ==
    \/ AdvanceDay
    \/ InitiateKnown
    \/ paymentNotifyMembership
    \/ paymentNotifyMembershipCustom
    \/ handleGracePeriodExpiry
    \/ expireMemberships

SpecLife == Init /\ [][NextLife]_vars

InitiateCheck == \E u \in Users : \E p \in PackageIds : initiateCheck(u, p)

InitiateCreate == \E i \in 1..MaxFlight : initiateCreate(i)

InitiateCreateDuplicate == \E i \in 1..MaxFlight : initiateCreateDuplicate(i)

\* Initiations that interleave at their awaits, minutes apart, and the
\* webhooks of the gateway.
NextRace ==
    \/ Tick
    \/ InitiateCheck
    \/ InitiateCreate
    \/ InitiateCreateDuplicate
    \/ paymentNotifyCancelled

SpecRace == Init /\ [][NextRace]_vars

\* Activations and the daily jobs of the sweeper, on the half-step clock.
NextSweep ==
    \/ AdvanceHalfStep
    \/ InitiateKnown
    \/ paymentNotifyActivation
    \/ handleGracePeriodExpiry
    \/ expireMemberships
    \/ Reminders

SpecSweep == Init /\ [][NextSweep]_vars

\* The payment controller and the generic user controller.
NextAdmin ==
    \/ InitiateKnown
    \/ paymentNotify
    \/ ManualComplete
    \/ UpdateUser
    \/ BulkUpdateUsers

SpecAdmin == Init /\ [][NextAdmin]_vars

PaymentNotifyLoad == \E o \in OrderIds : paymentNotifyLoad(o)

PaymentNotifySave == \E i \in 1..MaxFlight : paymentNotifySave(i)

HandleGracePeriodExpirySave == \E i \in 1..MaxFlight : handleGracePeriodExpirySave(i)

\* Success reconciliations and the suspension pass, load and save apart.
NextLoadSave ==
    \/ AdvanceDay
    \/ InitiateKnown
    \/ PaymentNotifyLoad
    \/ PaymentNotifySave
    \/ expireMemberships
    \/ handleGracePeriodExpiryFind
    \/ HandleGracePeriodExpirySave

SpecLoadSave == Init /\ [][NextLoadSave]_vars

Failures == [Users -> 0..AllSteps]

SendExpiryRemindersFailing ==
    \E d \in ReminderDays : \E fail \in Failures : sendExpiryRemindersFailing(d, fail)

ExpireMembershipsFailing == \E fail \in Failures : expireMembershipsFailing(fail)

HandleGracePeriodExpiryFailing ==
    \E fail \in Failures : handleGracePeriodExpiryFailing(fail)

\* Activations and the passes of the sweeper with failing iterations.
NextBatch ==
    \/ AdvanceDay
    \/ InitiateKnown
    \/ paymentNotifyActivation
    \/ HandleGracePeriodExpiryFailing
    \/ ExpireMembershipsFailing
    \/ SendExpiryRemindersFailing

SpecBatch == Init /\ [][NextBatch]_vars

CronJob == \E i \in 1..MaxFlight : cronJob(i)

RunAllChecksNowPass == \E i \in 1..MaxFlight : runAllChecksNowPass(i)

\* The memberships of the scheduler's runs are bought before its first job.
InitiateFirstDay == now = 0 /\ InitiateKnown

ActivateFirstDay == now = 0 /\ paymentNotifyActivation

\* Activations and the scheduler.
NextCronJobs ==
    \/ cronSchedule
    \/ CronJob
    \/ runAllChecksNow
    \/ RunAllChecksNowPass
    \/ InitiateFirstDay
    \/ ActivateFirstDay

SpecCron == Init /\ [][NextCronJobs]_vars

\* The scheduler after days on which the server was not running: the jobs
\* exist only in the running process, so no pass ran on those days.
NextRestart ==
    \/ AdvanceDay
    \/ cronSchedule
    \/ CronJob
    \/ InitiateFirstDay
    \/ ActivateFirstDay

SpecRestart == Init /\ [][NextRestart]_vars

\* The lifecycle with the scheduling the sweeper has when the server keeps
\* running: time passes, and the expiry and grace-period jobs run every day.
NextLive ==
    \/ AdvanceDay
    \/ InitiateKnown
    \/ paymentNotifyMembership
    \/ expireMemberships
    \/ handleGracePeriodExpiry

SpecLive ==
    /\ Init
    /\ [][NextLive]_vars
    /\ WF_vars(AdvanceDay)
    /\ WF_vars(expireMemberships)
    /\ WF_vars(handleGracePeriodExpiry)

\* ================================================================== claims
\* Every property below is stated on steps of the handlers: a step "is" a
\* delivery of req when Notify(req, ...) holds of it.

\* C1: re-processing a Payment that is already success is a no-op -- a
\* correctly signed status-code-2 webhook delivered for an order whose Payment
\* is already success increments no package counter and changes no user.
C1_RedeliveryIsNoOp ==
    [][\A req \in GatewayRequests :
          (/\ req.order_id \in OrderIds
           /\ req.status_code = "2"
           /\ payments[req.order_id].status = "success"
           /\ Notify(req, Steps(req), 1))
          => UNCHANGED <<users, packages>>]_vars

\* C2: the success branch of paymentNotify is atomic -- whenever a webhook
\* step leaves a Payment at success that was not success before, the same step
\* has set the owner's membership to active with that payment's window and has
\* incremented the counter of the payment's package.
C2_SuccessBranchAtomic ==
    [][\A o \in OrderIds :
          (/\ last'.op = "paymentNotify"
           /\ payments[o].status # "success"
           /\ payments'[o].status = "success")
          => /\ users'[payments[o].user].membershipStatus = "active"
             /\ users'[payments[o].user].membershipStartDate =
                    payments'[o].membershipStartDate
             /\ users'[payments[o].user].membershipEndDate =
                    payments'[o].membershipEndDate
             /\ payments'[o].membershipEndDate # NoDate
             /\ packages'[payments[o].package].currentMembers =
                    packages[payments[o].package].currentMembers + 1]_vars

\* C3: a webhook whose md5sig is not the digest of its own fields is answered
\* 400 and writes nothing: payments (so a pending Payment stays pending),
\* users, package counters and notifications are all unchanged.
C3_BadSignatureRejected ==
    [][(last'.op = "paymentNotify" /\ handled' = handled + 1) =>
       \A req \in UnverifiedRequests :
          Notify(req, Steps(req), 1)
          => /\ last'.res = 400
             /\ UNCHANGED <<users, packages, payments, notifications>>]_vars

\* C3 witness: a forged webhook was answered 400 while a Payment is pending.
C3_Witness ==
    /\ last.op = "paymentNotify"
    /\ last.res = 400
    /\ \E o \in OrderIds : payments[o].status = "pending"

\* C4: currentMembers <= maxMembers for every package whose maxMembers is set
\* -- the first successful reconciliation of a pending order, for the package
\* the order was initiated for, never takes a counter that is within its
\* capacity above it.
C4_WithinCapacity ==
    [][\A req \in GatewayRequests :
          (/\ req.order_id \in OrderIds
           /\ req.status_code = "2"
           /\ payments[req.order_id].status = "pending"
           /\ \A p \in PackageIds :
                 Truthy(Catalogue(p).maxMembers) =>
                     packages[p].currentMembers <= Catalogue(p).maxMembers
           /\ Notify(req, Steps(req), 1))
          => \A p \in PackageIds :
                 Truthy(Catalogue(p).maxMembers) =>
                     packages'[p].currentMembers <= Catalogue(p).maxMembers]_vars

\* C5: currentMembers of every package is >= 0 in every reachable state,
\* whatever chargebacks and sweep suspensions have happened.
C5_CounterNonNegative ==
    \A p \in PackageIds : packages[p].currentMembers >= 0

\* C5 witness: a chargeback has expired an active member of a package whose
\* counter was already 0 -- the order was for p1, the membership was
\* activated against p2, and the chargeback of the order named p1.
C5_Witness ==
    \E o \in OrderIds :
        /\ payments[o].status = "refunded"
        /\ payments[o].package = "p1"
        /\ users[payments[o].user].membershipStatus = "expired"
        /\ users[payments[o].user].membershipPackage = "p2"
        /\ packages["p1"].currentMembers = 0
        /\ packages["p2"].currentMembers = 1

\* C6: a user's membershipStatus becomes active only in a step that
\* reconciles a webhook (paymentNotify answering 200).
C6_ActiveOnlyByWebhook ==
    [][\A u \in Users :
          (/\ users[u].membershipStatus # "active"
           /\ users'[u].membershipStatus = "active")
          => /\ last'.op = "paymentNotify"
             /\ last'.res = 200]_vars

\* C7: updateUser and bulkUpdateUsers leave membershipStatus,
\* membershipStartDate, membershipEndDate and gracePeriodEndDate of every
\* user unchanged, whatever the body carries.
C7_UpdatesKeepMembership ==
    [][last'.op \in {"updateUser", "bulkUpdateUsers"}
          => \A u \in Users :
                /\ users'[u].membershipStatus = users[u].membershipStatus
                /\ users'[u].membershipStartDate = users[u].membershipStartDate
                /\ users'[u].membershipEndDate = users[u].membershipEndDate
                /\ users'[u].gracePeriodEndDate = users[u].gracePeriodEndDate]_vars

\* C8: every change of membershipStatus by the Reconciler or the Sweeper is
\* one of the four transitions of the table.
C8_TableTransitionsOnly ==
    [][\A u \in Users :
          users'[u].membershipStatus # users[u].membershipStatus
          => <<users[u].membershipStatus, users'[u].membershipStatus>> \in
                {<<"inactive", "active">>, <<"expired", "active">>,
                 <<"active", "grace_period">>, <<"grace_period", "expired">>,
                 <<"active", "expired">>}]_vars

\* C9: Payment status is monotonic under webhooks -- no Payment returns to
\* pending, and a Payment in a terminal status changes status only from
\* success to refunded.
C9_StatusMonotonic ==
    [][\A o \in OrderIds :
          last'.op = "paymentNotify"
          => /\ payments[o].status # "pending" => payments'[o].status # "pending"
             /\ (/\ payments[o].status \in TerminalStatuses
                 /\ payments'[o].status # payments[o].status)
                => /\ payments[o].status = "success"
                   /\ payments'[o].status = "refunded"]_vars

\* C10: initiatePayment for a package with maxMembers = N >= 1 and
\* currentMembers = N is rejected (400) and creates no Payment; payments,
\* users and packages are unchanged.
C10_FullPackageRejected ==
    [][\A u \in Users : \A p \in PackageIds :
          (/\ last'.op = "initiatePayment"
           /\ Truthy(Catalogue(p).maxMembers)
           /\ Catalogue(p).maxMembers >= 1
           /\ packages[p].currentMembers = Catalogue(p).maxMembers
           /\ initiatePayment(u, p))
          => /\ last'.res = 400
             /\ UNCHANGED <<payments, users, packages>>]_vars

\* C10 witness: an initiation was answered "maximum capacity" for the full p1.
C10_Witness ==
    /\ last.op = "initiatePayment"
    /\ last.msg = "maximum capacity"
    /\ packages["p1"].currentMembers = Catalogue("p1").maxMembers
    /\ Catalogue("p1").maxMembers >= 1

\* C11: no user ever has two pending Payments created within 30 minutes of
\* each other, also when two initiations of the user run concurrently.
C11_OnePendingPerWindow ==
    \A o1 \in OrderIds : \A o2 \in OrderIds :
        (/\ o1 < o2
         /\ payments[o1].user = payments[o2].user
         /\ payments[o1].status = "pending"
         /\ payments[o2].status = "pending")
        => payments[o2].createdAt - payments[o1].createdAt > PendingWindow

C13_ActivationWindow ==
    [][(last'.op = "paymentNotify" /\ handled' = handled + 1) =>
       \A req \in GatewayRequests :
          (/\ req.order_id \in OrderIds
           /\ req.status_code = "2"
           /\ payments[req.order_id].status = "pending"
           /\ Notify(req, Steps(req), 1))
          => LET o == req.order_id
                 u == payments[o].user
                 p == payments[o].package
                 end == now + Catalogue(p).durationMonths * MonthDays * DayMinutes
             IN  /\ last'.res = 200
                 /\ users'[u].membershipStatus = "active"
                 /\ users'[u].membershipPackage = p
                 /\ users'[u].membershipStartDate = now
                 /\ users'[u].membershipEndDate = end
                 /\ end > now
                 /\ users'[u].gracePeriodEndDate = end + GraceDays * DayMinutes
                 /\ payments'[o].status = "success"
                 /\ payments'[o].membershipStartDate = now
                 /\ payments'[o].membershipEndDate = end
                 /\ packages'[p].currentMembers = packages[p].currentMembers + 1]_vars

\* C13 witness: a webhook delivered in the middle of a day has just activated
\* the owner of a Payment, with the Payment's window.
C13_Witness ==
    /\ last.op = "paymentNotify"
    /\ last.res = 200
    /\ now % DayMinutes # 0
    /\ \E o \in OrderIds :
          /\ payments[o].status = "success"
          /\ payments[o].membershipStartDate = now
          /\ users[payments[o].user].membershipStatus = "active"
          /\ users[payments[o].user].membershipStartDate = now
          /\ users[payments[o].user].membershipEndDate =
                payments[o].membershipEndDate
          /\ users[payments[o].user].gracePeriodEndDate =
                payments[o].membershipEndDate + GraceDays * DayMinutes
          /\ packages[payments[o].package].currentMembers >= 1

\* C14: the expiry pass moves every user who is active with an end date
\* before today (midnight) to grace_period, changes nothing else of that
\* user (dates, package reference), changes no other user, and leaves
\* currentMembers of every package unchanged.
C14_ExpiryPass ==
    [][expireMemberships =>
          /\ \A u \in Users :
                users'[u] =
                    IF /\ users[u].membershipStatus = "active"
                       /\ users[u].membershipEndDate # NoDate
                       /\ users[u].membershipEndDate < now - (now % DayMinutes)
                    THEN [users[u] EXCEPT !.membershipStatus = "grace_period"]
                    ELSE users[u]
          /\ UNCHANGED <<packages, payments>>]_vars

\* C14 witness: the expiry pass has moved a member to grace_period; the
\* member still holds the slot, the package reference and the dates of the
\* paid window.
C14_Witness ==
    \E u \in Users : \E o \in OrderIds :
        /\ users[u].membershipStatus = "grace_period"
        /\ <<u, "membership_expiry">> \in notifications
        /\ payments[o].user = u
        /\ payments[o].status = "success"
        /\ users[u].membershipPackage = payments[o].package
        /\ users[u].membershipStartDate = payments[o].membershipStartDate
        /\ users[u].membershipEndDate = payments[o].membershipEndDate
        /\ users[u].membershipEndDate < now - (now % DayMinutes)
        /\ packages[payments[o].package].currentMembers = 1

\* C15: the suspension pass moves every user who is in grace_period with a
\* grace period end before today (midnight) to expired, changes no other
\* user, and lowers currentMembers of each package by 1 per suspended user
\* of that package -- by k when k of them share the package -- stopping at 0.
C15_SuspensionPass ==
    [][handleGracePeriodExpiry =>
          /\ \A u \in Users :
                users'[u] =
                    IF /\ users[u].membershipStatus = "grace_period"
                       /\ users[u].gracePeriodEndDate # NoDate
                       /\ users[u].gracePeriodEndDate < now - (now % DayMinutes)
                    THEN [users[u] EXCEPT !.membershipStatus = "expired"]
                    ELSE users[u]
          /\ \A p \in PackageIds :
                LET k == Cardinality(
                            {u \in Users :
                                /\ users[u].membershipStatus = "grace_period"
                                /\ users[u].gracePeriodEndDate # NoDate
                                /\ users[u].gracePeriodEndDate <
                                        now - (now % DayMinutes)
                                /\ users[u].membershipPackage = p})
                IN  packages'[p].currentMembers =
                        IF packages[p].currentMembers >= k
                        THEN packages[p].currentMembers - k
                        ELSE 0]_vars

\* C15 witness: two members of p1 with the same window were suspended by one
\* pass, which took the counter from 2 to 0.
C15_Witness ==
    /\ \A u \in Users :
          /\ users[u].membershipStatus = "expired"
          /\ users[u].membershipPackage = "p1"
          /\ users[u].gracePeriodEndDate = users["u1"].gracePeriodEndDate
          /\ users[u].gracePeriodEndDate < now - (now % DayMinutes)
          /\ \E o \in OrderIds : /\ payments[o].user = u
                                 /\ payments[o].status = "success"
    /\ Len(payments) = 2
    /\ handled = 2
    /\ packages["p1"].currentMembers = 0

\* C16: a failure of a best-effort side effect of a successful reconciliation
\* never fails it -- a webhook step that has applied the Payment, membership
\* and capacity updates (the counter of a package went up by 1) is answered
\* with the success response.
C16_SideEffectsBestEffort ==
    [][(/\ last'.op = "paymentNotify"
        /\ handled' # handled
        /\ \E p \in PackageIds :
              packages'[p].currentMembers = packages[p].currentMembers + 1)
       => last'.res = 200]_vars

\* C17: in every reachable state the amount of every Payment is
\* price - price * discount / 100 of its package (9000 with discount 11 gives
\* 8010), the amount of the form sent to the gateway and the amount under
\* its hash are that amount to two decimals, and no operation has changed it.
C17_AmountFromPackage ==
    \A o \in OrderIds :
        LET pkg == Catalogue(payments[o].package)
        IN  /\ payments[o].amount * 100 =
                    pkg.price * 100 - pkg.price * (IF pkg.discount = NoNumber
                                                   THEN 0 ELSE pkg.discount)
            /\ payments[o].package = "p1" => payments[o].amount = LKR(8010)
            /\ parseFloat(paymentData(o).amount) = payments[o].amount
            /\ paymentData(o).hash =
                    toUpperCase(MD5(<<MerchantId, o, toFixed2(payments[o].amount),
                                      Currency, toUpperCase(MD5(MerchantSecret))>>))

\* C17 witness: a Payment for the discounted package was refunded by a
\* chargeback and still has the amount 8010.00.
C17_Witness ==
    \E o \in OrderIds :
        /\ payments[o].package = "p1"
        /\ payments[o].status = "refunded"
        /\ payments[o].refundAmount = LKR(8010)
        /\ payments[o].amount = LKR(8010)
        /\ paymentData(o).amount = "8010.00"

C19_UnknownOrderRejected ==
    [][(last'.op = "paymentNotify" /\ handled' = handled + 1) =>
       \A c \in StatusCodes : \A cu \in Users \cup {NoId} : \A cp \in PackageIds \cup {NoId} :
          LET req == Request(UnknownOrder, c, cu, cp, "gateway")
          IN  (HashVerified(req) /\ Notify(req, Steps(req), 1))
              => /\ last'.res = 404
                 /\ last'.msg = "Payment not found"
                 /\ UNCHANGED <<users, packages, payments, notifications>>]_vars

\* C19 witness: a signed webhook for an unknown order was answered 404 while
\* a Payment of another order is pending.
C19_Witness ==
    /\ last.op = "paymentNotify"
    /\ last.res = 404
    /\ last.msg = "Payment not found"
    /\ \E o \in OrderIds : payments[o].status = "pending"

\* C20: a correctly signed chargeback (status -3) for a known order, sent
\* for the form as initiatePayment made it, marks the Payment refunded with
\* reason Chargeback and the amount of the webhook; if the user's membership
\* is active at that moment it becomes expired, the other membership fields
\* stay, and currentMembers of the Payment's package drops by 1 but not
\* below 0, no other counter moving; if the membership is not active, users
\* and packages are left unchanged.
C20_Chargeback ==
    [][(last'.op = "paymentNotify" /\ handled' = handled + 1) =>
       \A o \in OrderIds :
          LET req == Request(o, "-3", OwnUser(o), OwnPackage(o), "gateway")
              u == payments[o].user
              p == payments[o].package
              n == packages[p].currentMembers
          IN  Notify(req, Steps(req), 1)
              => /\ last'.res = 200
                 /\ payments'[o].status = "refunded"
                 /\ payments'[o].refundReason = "Chargeback"
                 /\ payments'[o].refundAmount = payments[o].amount
                 /\ \A o2 \in OrderIds \ {o} : payments'[o2] = payments[o2]
                 /\ IF users[u].membershipStatus = "active"
                    THEN /\ users' = [users EXCEPT ![u].membershipStatus = "expired"]
                         /\ packages' = [packages EXCEPT ![p].currentMembers =
                                            IF n - 1 < 0 THEN 0 ELSE n - 1]
                    ELSE /\ users' = users
                         /\ packages' = packages]_vars

\* C20 witness: a Payment that had activated its user was charged back --
\* the user is expired on the Payment's package, whose counter went from 1
\* to 0.
C20_Witness ==
    /\ last.op = "paymentNotify"
    /\ last.res = 200
    /\ \E o \in OrderIds :
          /\ payments[o].status = "refunded"
          /\ payments[o].refundReason = "Chargeback"
          /\ payments[o].membershipEndDate # NoDate
          /\ users[payments[o].user].membershipStatus = "expired"
          /\ users[payments[o].user].membershipPackage = payments[o].package
          /\ packages[payments[o].package].currentMembers = 0

\* C21: a correctly signed webhook for a known order whose status code is
\* neither 2 nor -3 leaves every user's Membership State and every package's
\* currentMembers as they were; with code 0 the Payment keeps its status and
\* only its status message is written, and with a code outside the table
\* nothing at all is written and the webhook is still answered 200.
C21_OtherCodesKeepMembership ==
    [][(last'.op = "paymentNotify" /\ handled' # handled) =>
       \A o \in OrderIds : \A c \in StatusCodes \ {"2", "-3"} :
       \A cost \in {1, 2} :
          LET req == Request(o, c, OwnUser(o), OwnPackage(o), "gateway")
          IN  (\E done \in 0..Steps(req) : Notify(req, done, cost))
              => /\ users' = users
                 /\ packages' = packages
                 /\ c \in {"0", "1"} => payments'[o].status = payments[o].status
                 /\ (c = "0" /\ last'.res = 200) =>
                        payments' = [payments EXCEPT ![o].statusMessage = "Payment pending"]
                 /\ c = "1" => /\ last'.res = 200
                               /\ UNCHANGED <<payments, notifications>>]_vars

\* C21 witness: a pending notice (code 0) was reconciled for a Payment that
\* had succeeded -- the Payment is still a success, its user still active
\* and the counter of its package still 1.
C21_Witness ==
    /\ last.op = "paymentNotify"
    /\ last.res = 200
    /\ \E o \in OrderIds :
          /\ payments[o].status = "success"
          /\ payments[o].statusMessage = "Payment pending"
          /\ users[payments[o].user].membershipStatus = "active"
          /\ packages[payments[o].package].currentMembers = 1

\* C22: no update of currentMembers is lost -- the save of a success
\* reconciliation (of an order that no other reconciliation, finished or
\* under way, is about) leaves the package's counter one above what it was just
\* before the save, and the saves of a suspension pass leave every counter
\* at what it was just before, less the users suspended from the package
\* (not below 0); so k reconciliations and m suspensions in any order end
\* at the initial value + k - m.
C22_NoLostUpdate ==
    [][\A i \in 1..MaxFlight :
          /\ (/\ i <= Len(flight)
              /\ \A j \in 1..Len(flight) :
                    (j # i /\ flight[j].op = "paymentNotify")
                    => flight[j].order # flight[i].order
              /\ payments[flight[i].order].membershipEndDate = NoDate
              /\ paymentNotifySave(i))
             => packages'[flight[i].package].currentMembers =
                    packages[flight[i].package].currentMembers + 1
          /\ (i <= Len(flight) /\ handleGracePeriodExpirySave(i))
             => \A p \in PackageIds :
                    packages'[p].currentMembers =
                        SweepCountTimes(packages[p].currentMembers,
                            Cardinality({u \in DOMAIN flight[i].usersToSuspend :
                                            flight[i].usersToSuspend[u] = p}))]_vars

\* C23: in every pass of the sweeper a failure in the iteration of one user
\* stays in that iteration -- every selected user whose own iteration does
\* not fail is processed in full (status written, counter of the package
\* saved, notification created), whatever fails for the others, and the pass
\* returns the number of users it selected.
C23_FailureStaysPerUser ==
    [][\A fail \in Failures :
          /\ (last'.op = "expireMemberships" /\ expireMembershipsFailing(fail))
             => /\ last'.msg = "success"
                /\ last'.res = Cardinality(usersToExpire)
                /\ \A u \in usersToExpire :
                      fail[u] = AllSteps
                      => /\ users'[u].membershipStatus = "grace_period"
                         /\ <<u, "membership_expiry">> \in notifications'
          /\ (last'.op = "handleGracePeriodExpiry" /\ handleGracePeriodExpiryFailing(fail))
             => /\ last'.msg = "success"
                /\ last'.res = Cardinality(usersToSuspend)
                /\ \A u \in usersExpiringSoon :
                      fail[u] = AllSteps => <<u, "membership_expiry">> \in notifications'
                /\ \A u \in usersToSuspend :
                      fail[u] = AllSteps
                      => /\ users'[u].membershipStatus = "expired"
                         /\ <<u, "membership_expiry">> \in notifications'
                         /\ LET n == packages[users[u].membershipPackage].currentMembers
                                n1 == packages'[users[u].membershipPackage].currentMembers
                            IN  n1 < n \/ n1 = 0
          /\ \A d \in ReminderDays :
             (last'.op = "sendExpiryReminders" /\ sendExpiryRemindersFailing(d, fail))
             => /\ last'.msg = "success"
                /\ \A u \in usersToRemind(d) :
                      fail[u] = AllSteps => <<u, "membership_expiry">> \in notifications']_vars

\* C23 witness: the suspension pass selected both users, the first save of
\* the first user failed -- the user is still in the grace period -- and the
\* second was suspended and the counter of the package saved.
C23_Witness ==
    /\ last.op = "handleGracePeriodExpiry"
    /\ last.res = 2
    /\ users["u1"].membershipStatus = "grace_period"
    /\ users["u2"].membershipStatus = "expired"
    /\ users["u1"].membershipPackage = "p1"
    /\ users["u2"].membershipPackage = "p1"
    /\ packages["p1"].currentMembers = 1

\* C24: in a daily sweep the grace-period pass has returned before the expiry
\* pass starts, and both have returned before a reminder pass starts -- of
\* two passes started by cron that are under way together, the one that
\* started later is not of a later stage (1 grace period, 2 expiry,
\* 3 reminders) than the one that started first.
C24_PassesInOrder ==
    \A i \in 1..Len(flight) : \A j \in 1..Len(flight) :
        (i < j /\ flight[i].op = "cron" /\ flight[j].op = "cron")
        => (IF flight[j].pass > 3 THEN 3 ELSE flight[j].pass)
              <= (IF flight[i].pass > 3 THEN 3 ELSE flight[i].pass)

\* C25: the comparison of the signature ignores the case of the hex digits --
\* a webhook whose md5sig is the right digest in lowercase hex passes the
\* gate like the uppercase form, so paymentNotify does not answer it 400.
C25_LowercaseAccepted ==
    [][(last'.op = "paymentNotify" /\ handled' = handled + 1) =>
       \A o \in OrderIds \cup {UnknownOrder} : \A c \in StatusCodes :
          LET req == Request(o, c, OwnUser(o), OwnPackage(o), "lowercase")
          IN  Notify(req, Steps(req), 1)
              => /\ HashVerified(req)
                 /\ last'.res # 400]_vars

\* C26: currentMembers of every package is the number of users who hold a
\* slot in it -- the users whose membershipPackage is the package and whose
\* membershipStatus is active or grace_period -- in every reachable state; a
\* successful payment by a user who holds a slot does not count the user twice.
C26_CounterIsSlotHolders ==
    \A p \in PackageIds :
        packages[p].currentMembers =
            Cardinality({u \in Users :
                            /\ users[u].membershipPackage = p
                            /\ users[u].membershipStatus \in {"active", "grace_period"}})

\* C27: when a correctly signed status-2 webhook for order O is reconciled,
\* the user who is activated is the user of Payment O and the package that
\* is assigned and counted is the package of Payment O, whatever custom_1
\* and custom_2 of the webhook are: no other user and no other package
\* changes.
C27_ActivatesPaymentsUser ==
    [][(last'.op = "paymentNotify" /\ last'.res = 200 /\ handled' # handled) =>
       \A req \in GatewayRequests \cup CustomRequests :
          (/\ req.status_code = "2"
           /\ req.order_id \in OrderIds
           /\ \E cost \in {1, 2} : Notify(req, Steps(req), cost))
          => LET o == req.order_id
             IN  /\ users'[payments[o].user].membershipStatus = "active"
                 /\ users'[payments[o].user].membershipPackage = payments[o].package
                 /\ \A u \in Users \ {payments[o].user} : users'[u] = users[u]
                 /\ packages'[payments[o].package].currentMembers =
                        packages[payments[o].package].currentMembers + 1
                 /\ \A p \in PackageIds \ {payments[o].package} :
                        packages'[p] = packages[p]]_vars

\* C28: within one daily sweep a membership advances by at most one state --
\* a user who was active when the grace-period job of the day started is not
\* moved to expired by that job, so a user whom the day's expiry pass moves
\* to grace_period stays there until a later sweep.
C28_OneStatePerSweep ==
    [][\A i \in 1..MaxFlight :
          (/\ i <= Len(flight)
           /\ flight[i].op = "cron"
           /\ cronJob(i))
          => \A u \in flight[i].activeAtStart :
                users'[u].membershipStatus # "expired"]_vars

\* C29: with the sweep running every day and its saves succeeding, a user
\* who is active after membershipEndDate has passed eventually is no longer
\* active (grace_period, or expired by a chargeback) unless a new successful
\* payment has moved the end date ahead, and a user who is in grace_period
\* after gracePeriodEndDate has passed eventually is no longer in
\* grace_period (expired, or active again by a new payment): nobody stays
\* active or in grace_period forever past the dates.
C29_EventuallyExpires ==
    \A u \in Users :
        /\ (/\ users[u].membershipStatus = "active"
            /\ users[u].membershipEndDate # NoDate
            /\ users[u].membershipEndDate < StartOfDay(now))
           ~> (\/ users[u].membershipStatus # "active"
               \/ users[u].membershipEndDate >= StartOfDay(now))
        /\ (/\ users[u].membershipStatus = "grace_period"
            /\ users[u].gracePeriodEndDate # NoDate
            /\ users[u].gracePeriodEndDate < StartOfDay(now))
           ~> (users[u].membershipStatus # "grace_period")

\* C29 witness: a membership activated by a reconciled payment has gone
\* through the grace period and is expired after gracePeriodEndDate, its
\* slot released.
C29_Witness ==
    \E o \in OrderIds :
        LET u == payments[o].user
        IN  /\ payments[o].status = "success"
            /\ users[u].membershipStatus = "expired"
            /\ users[u].membershipPackage = payments[o].package
            /\ users[u].gracePeriodEndDate # NoDate
            /\ users[u].gracePeriodEndDate < StartOfDay(now)
            /\ packages[payments[o].package].currentMembers = 0

\* C30: when the chargeback of order O moves a user from active to expired,
\* O is the payment that activated the user's current membership (same
\* package, same start of the window), and the counter that is decremented
\* is the one of the user's membershipPackage; the chargeback of an older or
\* never completed order leaves a newer membership alone.
C30_ChargebackOfCurrentMembership ==
    [][(last'.op = "paymentNotify" /\ handled' = handled + 1) =>
       \A o \in OrderIds :
          LET req == Request(o, "-3", OwnUser(o), OwnPackage(o), "gateway")
              u == payments[o].user
          IN  (/\ Notify(req, Steps(req), 1)
               /\ users[u].membershipStatus = "active"
               /\ users'[u].membershipStatus = "expired")
              => /\ payments[o].package = users[u].membershipPackage
                 /\ payments[o].membershipStartDate = users[u].membershipStartDate
                 /\ \A p \in PackageIds \ {users[u].membershipPackage} :
                        packages'[p] = packages[p]]_vars

====
